---- MODULE Spec2Model ----
(***************************************************************************)
(* EffectorP 1.0 (Scripts/EffectorP.py): one run of the prediction         *)
(* pipeline, from the tool-path checks of main() to the written reports.   *)
(* The two external processes (pepstats, WEKA) are environment actions:    *)
(* each may fail to launch, exit with any status, and never has to exit.   *)
(***************************************************************************)
EXTENDS Integers, Sequences, FiniteSets, TLC

\* Largest number of records in the input FASTA file.
MaxProteins == 3

None == "None"

\* exit statuses a child process can report (Process.returncode)
ReturnCodes == {0, 1}

\* The original identifiers a FASTA file can hold (unique within a file).
Names == {<<"id", k>> : k \in 1..MaxProteins}

\* The sequence stored under a name; two names can carry the same sequence.
SeqOf(name) == <<"seq", name[2] % 2>>

\* What the classifier can print for one instance: predicted class, probability (percent).
Outcomes == {<<"Effector", 91>>, <<"Effector", 55>>, <<"Non-effector", 88>>}

Range(s) == {s[i] : i \in 1..Len(s)}

\* The FASTA files of the input domain: from none to MaxProteins records with unique
\* identifiers, in every cyclic order of the first n names (the program never
\* compares two names, so which names a file holds does not matter; the order
\* they come in is not the order of their numbers).
InputFiles ==
    {<< >>} \cup
    UNION {{[i \in 1..n |-> <<"id", ((i + k) % n) + 1>>] : k \in 0..(n - 1)} : n \in 1..MaxProteins}

VARIABLES
    pc,                 \* position of main()
    exitStatus,         \* {} while the process runs, {status} once it has exited
    wekaJar,            \* os.access(weka_path, F_OK)
    embossDir,          \* os.access(emboss_path, F_OK)
    fastaReadable,      \* open(FASTA_FILE, 'r') succeeds
    FASTA_FILE, short_format, output_file, effector_output,
    ORIGINAL_IDENTIFIERS, SEQUENCES, SHORT_IDENTIFIERS,
    workspace,          \* the TemporaryDirectory: [created, exists, files]
    pepstatsProc,       \* [state, rc] of the pepstats child process
    wekaProc,           \* [state, rc] of the java (WEKA) child process
    pepstatsFile,       \* the .pepstats report: surrogate id -> statistics
    pepstats_dic,
    arff,               \* rows of the .arff feature table
    predictionsFile,    \* lines of _Predictions.txt
    predictions, predicted_effectors,
    reportFile,         \* the file at output_file: [exists, lines]
    stdout,             \* report lines printed to stdout
    effectorFile        \* the file at effector_output: [exists, lines]

config == <<wekaJar, embossDir, fastaReadable>>
options == <<FASTA_FILE, short_format, output_file, effector_output>>
input == <<ORIGINAL_IDENTIFIERS, SEQUENCES>>
procs == <<pepstatsProc, wekaProc>>
stage1 == <<SHORT_IDENTIFIERS, pepstatsFile, pepstats_dic>>
stage2 == <<arff, predictionsFile, predictions, predicted_effectors>>
outputs == <<reportFile, stdout, effectorFile>>
vars == <<pc, exitStatus, config, options, input, workspace, procs, stage1, stage2, outputs>>

NotStarted == [state |-> "none", returncode |-> 0]

NoFile == [exists |-> FALSE, lines |-> << >>]

Init ==
    /\ pc = "get_weka_path"
    /\ exitStatus = {}
    /\ wekaJar \in BOOLEAN
    /\ embossDir \in BOOLEAN
    /\ fastaReadable \in BOOLEAN
    /\ FASTA_FILE = None
    /\ short_format = FALSE
    /\ output_file = None
    /\ effector_output = None
    /\ ORIGINAL_IDENTIFIERS = << >>
    /\ SEQUENCES = << >>
    /\ SHORT_IDENTIFIERS = << >>
    /\ workspace = [created |-> FALSE, exists |-> FALSE, files |-> {}]
    /\ pepstatsProc = NotStarted
    /\ wekaProc = NotStarted
    /\ pepstatsFile = << >>
    /\ pepstats_dic = << >>
    /\ arff = << >>
    /\ predictionsFile = << >>
    /\ predictions = << >>
    /\ predicted_effectors = << >>
    /\ reportFile = NoFile
    /\ stdout = << >>
    /\ effectorFile = NoFile

----
\* A cleanup that runs only when the block is left normally.
TemporaryDirectoryExitOnSuccessOnly(ws, raised) ==
    IF raised THEN ws ELSE [ws EXCEPT !.exists = FALSE, !.files = {}]

\* TemporaryDirectory.__exit__: the directory and everything in it is removed,
\* both when the block is left normally and when an exception (SystemExit
\* included) unwinds through it.
TemporaryDirectoryExit(ws, raised) == [ws EXCEPT !.exists = FALSE, !.files = {}]

\* sys.exit(status), or an exception nothing catches (status 1), raised outside
\* the with-block.
Exit(status) ==
    /\ pc' = "done"
    /\ exitStatus' = {status}
    /\ UNCHANGED workspace

\* The same raised inside the with-block: the stack unwinds through the
\* TemporaryDirectory before the interpreter exits.
ExitInWorkspace(status) ==
    /\ pc' = "done"
    /\ exitStatus' = {status}
    /\ workspace' = TemporaryDirectoryExit(workspace, TRUE)

\* A check that looks at the captured streams and never at the return code.
PepstatsFailsIgnoringReturncode(returncode, cstdout, cstderr) ==
    IF cstdout # None THEN FALSE ELSE cstderr # None

WekaFailsIgnoringReturncode(returncode, cstdout, cstderr) ==
    IF cstdout # None THEN FALSE ELSE cstderr # None

\* A poll instead of a wait: returns as soon as the child has been started.
WaitReturnsWithoutWaiting(proc) == proc.state # "none"

\* run_pepstats, lines 98-107: what the try/except makes of the exit of
\* pepstats.  A non-zero return code raises, a bare sys.exit() is raised when
\* there is stderr output but no stdout output, and the bare except turns
\* whatever was raised into sys.exit(1).
PepstatsFails(returncode, cstdout, cstderr) ==
    IF returncode # 0 THEN TRUE
    ELSE IF cstdout # None THEN FALSE
    ELSE cstderr # None

\* run_weka, lines 143-152: the same for the classifier.
WekaFails(returncode, cstdout, cstderr) ==
    IF returncode # 0 THEN TRUE
    ELSE IF cstdout # None THEN FALSE
    ELSE cstderr # None

\* Process.wait(): returns only once the child has exited; there is no timeout.
WaitReturns(proc) == proc.state = "exited"

\* communicate() on a child started without stdout=PIPE / stderr=PIPE
Communicate == <<None, None>>

----
\* A path check that reports nothing and goes on.
get_weka_path_unchecked ==
    /\ pc = "get_weka_path"
    /\ pc' = "get_emboss_path"
    /\ UNCHANGED <<exitStatus, workspace, config, options, input, procs, stage1, stage2, outputs>>

get_weka_path ==
    /\ pc = "get_weka_path"
    /\ IF wekaJar THEN pc' = "get_emboss_path" /\ UNCHANGED <<exitStatus, workspace>>
       ELSE Exit(1)
    /\ UNCHANGED <<config, options, input, procs, stage1, stage2, outputs>>

get_emboss_path ==
    /\ pc = "get_emboss_path"
    /\ IF embossDir THEN pc' = "scan_arguments" /\ UNCHANGED <<exitStatus, workspace>>
       ELSE Exit(1)
    /\ UNCHANGED <<config, options, input, procs, stage1, stage2, outputs>>

\* functions.usage(): prints the usage text and ends the process.
usage == \E status \in {0, 1} : Exit(status)

\* main, lines 168-178: no arguments at all, arguments without -i, or a full
\* command line.
scan_arguments ==
    /\ pc = "scan_arguments"
    /\ \/ /\ usage
          /\ UNCHANGED options
       \/ /\ pc' = "open_fasta"
          /\ FASTA_FILE' = "in.fasta"
          /\ short_format' \in BOOLEAN
          /\ output_file' \in {None, "out.txt"}
          /\ effector_output' \in {None, "effectors.fasta"}
          /\ UNCHANGED <<exitStatus, workspace>>
    /\ UNCHANGED <<config, input, procs, stage1, stage2, outputs>>

open_fasta ==
    /\ pc = "open_fasta"
    /\ IF fastaReadable THEN pc' = "get_seqs_ids_fasta" /\ UNCHANGED <<exitStatus, workspace>>
       ELSE Exit(1)
    /\ UNCHANGED <<config, options, input, procs, stage1, stage2, outputs>>

\* functions.get_seqs_ids_fasta: identifiers and sequences in file order.
get_seqs_ids_fasta ==
    /\ pc = "get_seqs_ids_fasta"
    /\ \E f \in InputFiles :
          /\ ORIGINAL_IDENTIFIERS' = f
          /\ SEQUENCES' = [i \in 1..Len(f) |-> SeqOf(f[i])]
    /\ pc' = "TemporaryDirectory"
    /\ UNCHANGED <<exitStatus, config, options, workspace, procs, stage1, stage2, outputs>>

TemporaryDirectoryEnter ==
    /\ pc = "TemporaryDirectory"
    /\ workspace' = [created |-> TRUE, exists |-> TRUE, files |-> {}]
    /\ pc' = "write_FASTA_short_ids"
    /\ UNCHANGED <<exitStatus, config, options, input, procs, stage1, stage2, outputs>>

----
\* The surrogate identifier of the protein at index i of the input (from 0).
ShortId(i) == <<"protein", i>>

\* functions.write_FASTA_short_ids: surrogates by position in the input.
write_FASTA_short_ids(ids) == [i \in 1..Len(ids) |-> ShortId(i - 1)]

\* What pepstats computes for a sequence (the numeric fields of its record).
Statistics(sequence) == <<"stats", sequence>>

\* run_pepstats, lines 80-81
WriteShortIdsFasta ==
    /\ pc = "write_FASTA_short_ids"
    /\ SHORT_IDENTIFIERS' = write_FASTA_short_ids(ORIGINAL_IDENTIFIERS)
    /\ workspace' = [workspace EXCEPT !.files = @ \cup {"short_ids.fasta"}]
    /\ pc' = "Popen_pepstats"
    /\ UNCHANGED <<exitStatus, config, options, input, procs, pepstatsFile, pepstats_dic,
                   stage2, outputs>>

\* run_pepstats, line 94: Popen starts the child, or raises (OSError) and the
\* bare except exits with status 1.
PopenPepstats ==
    /\ pc = "Popen_pepstats"
    /\ \/ /\ pepstatsProc' = [state |-> "running", returncode |-> 0]
          /\ pc' = "wait_pepstats"
          /\ UNCHANGED <<exitStatus, workspace>>
       \/ /\ ExitInWorkspace(1)
          /\ UNCHANGED pepstatsProc
    /\ UNCHANGED <<config, options, input, wekaProc, stage1, stage2, outputs>>

\* The pepstats process ends.  With status 0 it has written a report that holds
\* the record of some of the sequences it was given.
PepstatsExits ==
    /\ pepstatsProc.state = "running"
    /\ \E rc \in ReturnCodes :
          /\ pepstatsProc' = [state |-> "exited", returncode |-> rc]
          /\ IF rc = 0
             THEN /\ \E S \in SUBSET (1..Len(SHORT_IDENTIFIERS)) :
                        pepstatsFile' = [sid \in {SHORT_IDENTIFIERS[i] : i \in S} |->
                                            Statistics(SEQUENCES[sid[2] + 1])]
                  /\ workspace' = [workspace EXCEPT !.files = @ \cup {"pepstats"}]
             ELSE UNCHANGED <<pepstatsFile, workspace>>
    /\ UNCHANGED <<pc, exitStatus, config, options, input, wekaProc, SHORT_IDENTIFIERS,
                   pepstats_dic, stage2, outputs>>

\* run_pepstats, lines 95-107
WaitPepstats ==
    /\ pc = "wait_pepstats"
    /\ WaitReturns(pepstatsProc)
    /\ IF PepstatsFails(pepstatsProc.returncode, Communicate[1], Communicate[2])
       THEN ExitInWorkspace(1)
       ELSE pc' = "functions.pepstats" /\ UNCHANGED <<exitStatus, workspace>>
    /\ UNCHANGED <<config, options, input, procs, stage1, stage2, outputs>>

\* functions.pepstats: one feature vector per record found in the report; a
\* protein whose record is missing gets none.
pepstats(short_ids, report) == [sid \in (Range(short_ids) \cap DOMAIN report) |-> report[sid]]

\* run_pepstats, lines 113-119: the parse returns, or raises and nothing
\* catches it.
ParsePepstats ==
    /\ pc = "functions.pepstats"
    /\ \/ /\ pepstats_dic' = pepstats(SHORT_IDENTIFIERS, pepstatsFile)
          /\ pc' = "write_weka_input"
          /\ UNCHANGED <<exitStatus, workspace>>
       \/ /\ ExitInWorkspace(1)
          /\ UNCHANGED pepstats_dic
    /\ UNCHANGED <<config, options, input, procs, SHORT_IDENTIFIERS, pepstatsFile, stage2, outputs>>

\* functions.write_weka_input: one row per feature vector, in the order of the
\* surrogate identifiers.  The table has no identifier column; `of` records
\* which protein a row was computed from.
write_weka_input(short_ids, dic) ==
    LET kept == SelectSeq(short_ids, LAMBDA sid : sid \in DOMAIN dic)
    IN  [r \in 1..Len(kept) |-> [of |-> kept[r], features |-> dic[kept[r]]]]

\* run_weka, lines 124-125
WriteWekaInput ==
    /\ pc = "write_weka_input"
    /\ arff' = write_weka_input(SHORT_IDENTIFIERS, pepstats_dic)
    /\ workspace' = [workspace EXCEPT !.files = @ \cup {"arff"}]
    /\ pc' = "Popen_weka"
    /\ UNCHANGED <<exitStatus, config, options, input, procs, stage1, predictionsFile,
                   predictions, predicted_effectors, outputs>>

\* run_weka, lines 137-139: the predictions file is created, then Popen starts
\* java or raises.
PopenWeka ==
    /\ pc = "Popen_weka"
    /\ \/ /\ wekaProc' = [state |-> "running", returncode |-> 0]
          /\ pc' = "wait_weka"
          /\ workspace' = [workspace EXCEPT !.files = @ \cup {"Predictions.txt"}]
          /\ UNCHANGED exitStatus
       \/ /\ ExitInWorkspace(1)
          /\ UNCHANGED wekaProc
    /\ UNCHANGED <<config, options, input, pepstatsProc, stage1, stage2, outputs>>

\* The classifier process ends.  With status 0 it has printed one line per row
\* of the feature table, in row order: instance number, class, probability.
WekaExits ==
    /\ wekaProc.state = "running"
    /\ \E rc \in ReturnCodes :
          /\ wekaProc' = [state |-> "exited", returncode |-> rc]
          /\ IF rc = 0
             THEN \E o \in [1..Len(arff) -> Outcomes] :
                     predictionsFile' = [r \in 1..Len(arff) |->
                                            [inst |-> r, predicted |-> o[r][1], prob |-> o[r][2]]]
             ELSE UNCHANGED predictionsFile
    /\ UNCHANGED <<pc, exitStatus, config, options, input, workspace, pepstatsProc, stage1,
                   arff, predictions, predicted_effectors, outputs>>

\* run_weka, lines 140-154
WaitWeka ==
    /\ pc = "wait_weka"
    /\ WaitReturns(wekaProc)
    /\ IF WekaFails(wekaProc.returncode, Communicate[1], Communicate[2])
       THEN ExitInWorkspace(1)
       ELSE pc' = "parse_weka_output" /\ UNCHANGED <<exitStatus, workspace>>
    /\ UNCHANGED <<config, options, input, procs, stage1, stage2, outputs>>

----
\* The orders in which a stable or unstable sort by descending probability can
\* leave the records of s (records with equal probability in any order).
SortedByProbability(s) ==
    {t \in [1..Len(s) -> Range(s)] :
        /\ Range(t) = Range(s)
        /\ \A i, j \in 1..Len(s) : i < j => t[i][2] >= t[j][2]}

\* functions.parse_weka_output, all Prediction Records: the line of instance
\* number n is resolved to the n-th surrogate, and so to the n-th original
\* identifier.
ParsedPredictions(lines, ids) ==
    [r \in 1..Len(lines) |-> <<ids[lines[r].inst], lines[r].predicted, lines[r].prob>>]

\* functions.parse_weka_output, the records predicted "Effector", each with the
\* sequence stored at the same index, in line order.
ParsedEffectors(lines, ids, seqs) ==
    LET eff == SelectSeq(lines, LAMBDA l : l.predicted = "Effector")
    IN  [r \in 1..Len(eff) |-> <<ids[eff[r].inst], eff[r].prob, seqs[eff[r].inst]>>]

\* functions.parse_weka_output fails on a line whose instance number has no
\* protein.
ParseFails(lines, ids) == \E r \in 1..Len(lines) : lines[r].inst \notin 1..Len(ids)

\* run_weka, lines 156-159: the parser gets the predictions file and the
\* original identifiers and sequences, nothing else.  It returns, or raises
\* and nothing catches it.
ParseWekaOutput ==
    /\ pc = "parse_weka_output"
    /\ \/ /\ ~ParseFails(predictionsFile, ORIGINAL_IDENTIFIERS)
          /\ predictions' = ParsedPredictions(predictionsFile, ORIGINAL_IDENTIFIERS)
          /\ predicted_effectors' \in
                SortedByProbability(ParsedEffectors(predictionsFile, ORIGINAL_IDENTIFIERS, SEQUENCES))
          /\ pc' = "leave_TemporaryDirectory"
          /\ UNCHANGED <<exitStatus, workspace>>
       \/ /\ ExitInWorkspace(1)
          /\ UNCHANGED <<predictions, predicted_effectors>>
    /\ UNCHANGED <<config, options, input, procs, stage1, arff, predictionsFile, outputs>>

\* main, lines 199-201: the with-block is left normally.
TemporaryDirectoryLeave ==
    /\ pc = "leave_TemporaryDirectory"
    /\ workspace' = TemporaryDirectoryExit(workspace, FALSE)
    /\ pc' = "report"
    /\ UNCHANGED <<exitStatus, config, options, input, procs, stage1, stage2, outputs>>

\* functions.short_output: one line per Prediction Record, in the order of the
\* records it is given.
short_output(preds) ==
    [r \in 1..Len(preds) |->
        [kind |-> "short", id |-> preds[r][1], predicted |-> preds[r][2], prob |-> preds[r][3]]]

\* functions.long_output: one block per predicted effector.
long_output(ids, effs) ==
    [r \in 1..Len(effs) |->
        [kind |-> "long", id |-> effs[r][1], predicted |-> "Effector", prob |-> effs[r][2]]]

\* A long format that writes the short table twice.
ReportLinesTableTwice(short, preds, ids, effs) ==
    IF short THEN short_output(preds)
    ELSE short_output(preds) \o short_output(preds) \o long_output(ids, effs)

\* main, lines 208-213 and 218-223: the short table, followed in the long
\* format by the effector blocks.
ReportLines(short, preds, ids, effs) ==
    IF short THEN short_output(preds)
    ELSE short_output(preds) \o long_output(ids, effs)

\* main, lines 203-223: the report goes to output_file if one was given, else
\* to stdout.
WriteReport ==
    /\ pc = "report"
    /\ LET lines == ReportLines(short_format, predictions, ORIGINAL_IDENTIFIERS, predicted_effectors)
       IN  IF output_file # None
           THEN reportFile' = [exists |-> TRUE, lines |-> lines] /\ UNCHANGED stdout
           ELSE stdout' = lines /\ UNCHANGED reportFile
    /\ pc' = "effector_output"
    /\ UNCHANGED <<exitStatus, config, options, input, workspace, procs, stage1, stage2,
                   effectorFile>>

\* An export that does not look at whether a path was given.
EffectorFastaUnconditional(path, effs, file) ==
    [exists |-> TRUE,
     lines |-> [r \in 1..Len(effs) |->
                   [id |-> effs[r][1], prob |-> effs[r][2], sequence |-> effs[r][3]]]]

\* main, lines 226-230: the file at effector_output after these lines; each
\* record is the header (identifier, probability) and the sequence.
EffectorFasta(path, effs, file) ==
    IF path # None
    THEN [exists |-> TRUE,
          lines |-> [r \in 1..Len(effs) |->
                        [id |-> effs[r][1], prob |-> effs[r][2], sequence |-> effs[r][3]]]]
    ELSE file

\* main, lines 225-231, and the return of main(): exit status 0.
WriteEffectors ==
    /\ pc = "effector_output"
    /\ effectorFile' = EffectorFasta(effector_output, predicted_effectors, effectorFile)
    /\ Exit(0)
    /\ UNCHANGED <<config, options, input, procs, stage1, stage2, reportFile, stdout>>

\* The steps of main() itself.
MainStep ==
    \/ get_weka_path
    \/ get_emboss_path
    \/ scan_arguments
    \/ open_fasta
    \/ get_seqs_ids_fasta
    \/ TemporaryDirectoryEnter
    \/ WriteShortIdsFasta
    \/ PopenPepstats
    \/ WaitPepstats
    \/ ParsePepstats
    \/ WriteWekaInput
    \/ PopenWeka
    \/ WaitWeka
    \/ ParseWekaOutput
    \/ TemporaryDirectoryLeave
    \/ WriteReport
    \/ WriteEffectors

Next ==
    \/ MainStep
    \/ PepstatsExits
    \/ WekaExits

Spec == Init /\ [][Next]_vars

\* The scheduling of a run: the interpreter always takes its next step.  The
\* runs of FairSpec are those in which, besides, every child process that was
\* started exits; nothing in the code makes a child exit.
FairSpec ==
    /\ Spec
    /\ WF_vars(MainStep)
    /\ WF_vars(PepstatsExits)
    /\ WF_vars(WekaExits)

TypeOK ==
    /\ pc \in {"get_weka_path", "get_emboss_path", "scan_arguments", "open_fasta",
               "get_seqs_ids_fasta", "TemporaryDirectory", "write_FASTA_short_ids",
               "Popen_pepstats", "wait_pepstats", "functions.pepstats", "write_weka_input",
               "Popen_weka", "wait_weka", "parse_weka_output", "leave_TemporaryDirectory",
               "report", "effector_output", "done"}
    /\ exitStatus \in {{}, {0}, {1}}
    /\ ORIGINAL_IDENTIFIERS \in InputFiles
    /\ Len(SEQUENCES) = Len(ORIGINAL_IDENTIFIERS)
    /\ pepstatsProc.state \in {"none", "running", "exited"}
    /\ wekaProc.state \in {"none", "running", "exited"}
----
\* Shorthands of the properties below.
Terminated == pc = "done"
PepstatsFailed == pepstatsProc.state = "exited" /\ pepstatsProc.returncode # 0
WekaFailed == wekaProc.state = "exited" /\ wekaProc.returncode # 0
BothToolsSucceeded ==
    /\ pepstatsProc.state = "exited" /\ pepstatsProc.returncode = 0
    /\ wekaProc.state = "exited" /\ wekaProc.returncode = 0
NoReportWritten == ~reportFile.exists /\ stdout = << >>
\* position of an original identifier in the input
IndexOf(name) == CHOOSE i \in 1..Len(ORIGINAL_IDENTIFIERS) : ORIGINAL_IDENTIFIERS[i] = name
\* the original identifier a surrogate was assigned to
OriginalOf(sid) == ORIGINAL_IDENTIFIERS[sid[2] + 1]
\* the surrogates whose record the pepstats report lacks
Dropped == Range(SHORT_IDENTIFIERS) \ DOMAIN pepstatsFile
ShortLines(lines) == SelectSeq(lines, LAMBDA l : l.kind = "short")

\* C1: once a run that created the temporary directory has terminated, on any
\* exit path, the directory and every intermediate file in it are gone.
C1_WorkspaceRemoved ==
    (Terminated /\ workspace.created) => (~workspace.exists /\ workspace.files = {})

\* a run that died of a classifier failure after writing its intermediate files
C1_Witness ==
    /\ Terminated /\ workspace.created /\ WekaFailed /\ exitStatus = {1}
    /\ Len(arff) > 0

\* C2: after pepstats has exited non-zero the run can only end, with status 1
\* and the workspace removed; the classifier is never started and no report is
\* written.
C2_PepstatsFailureFatal ==
    PepstatsFailed =>
        /\ pc \in {"wait_pepstats", "done"}
        /\ Terminated => (exitStatus = {1} /\ ~workspace.exists)
        /\ wekaProc.state = "none"
        /\ NoReportWritten
        /\ ~effectorFile.exists

C2_Witness == Terminated /\ PepstatsFailed /\ output_file # None

\* C3: after the classifier has exited non-zero the run can only end, with
\* status 1; the report file and the effector FASTA file exist only if both
\* tools exited with status 0.
C3_WekaFailureFatal ==
    /\ WekaFailed =>
          /\ pc \in {"wait_weka", "done"}
          /\ Terminated => exitStatus = {1}
          /\ NoReportWritten
          /\ ~effectorFile.exists
    /\ (reportFile.exists \/ effectorFile.exists) => BothToolsSucceeded

C3_Witness ==
    /\ Terminated /\ WekaFailed /\ output_file # None /\ effector_output # None
    /\ Len(predictionsFile) = 0

\* C4: every Prediction Record carries the original identifier of the protein
\* whose feature row the classifier scored, and every effector record that
\* protein's sequence.
C4_RoundTrip ==
    /\ \A r \in 1..Len(predictions) : predictions[r][1] = OriginalOf(arff[r].of)
    /\ \A e \in Range(predicted_effectors) :
          \E r \in 1..Len(arff) : /\ e[1] = OriginalOf(arff[r].of)
                                  /\ e[3] = SEQUENCES[arff[r].of[2] + 1]
                                  /\ predictionsFile[r].prob = e[2]

C6_DroppedProteinAbsent ==
    (Terminated /\ exitStatus = {0} /\ BothToolsSucceeded /\ Dropped # {}) =>
        /\ \A sid \in Dropped :
              /\ \A r \in 1..Len(arff) : arff[r].of # sid
              /\ \A r \in 1..Len(predictions) : predictions[r][1] # OriginalOf(sid)
        /\ \A sid \in Range(SHORT_IDENTIFIERS) \ Dropped :
              \E r \in 1..Len(predictions) : predictions[r][1] = OriginalOf(sid)

\* C7: a run on an empty input that got as far as running pepstats ends with
\* status 0 and an empty report.
C7_EmptyInputNoOp ==
    (Terminated /\ FASTA_FILE # None /\ pepstatsProc.state = "exited"
        /\ ORIGINAL_IDENTIFIERS = << >>) =>
        /\ exitStatus = {0}
        /\ reportFile.lines = << >> /\ stdout = << >>

\* C8: when a tool path does not exist the run ends in the path checks, before
\* the arguments and the input file are looked at; when the input file cannot
\* be opened it ends there.  Both end with status 1, and no workspace is
\* created, no child process started and no output written.
ConfigurationError == ~wekaJar \/ ~embossDir
InputError == ~ConfigurationError /\ FASTA_FILE # None /\ ~fastaReadable
C8_ErrorsBeforeProcessing ==
    /\ ConfigurationError => (pc \in {"get_weka_path", "get_emboss_path", "done"} /\ FASTA_FILE = None)
    /\ InputError => pc \in {"open_fasta", "done"}
    /\ (ConfigurationError \/ InputError) =>
          /\ Terminated => exitStatus = {1}
          /\ ~workspace.created /\ workspace.files = {}
          /\ pepstatsProc.state = "none" /\ wekaProc.state = "none"
          /\ NoReportWritten /\ ~effectorFile.exists

\* a run stopped by a missing weka.jar although the input file is unreadable too
C8_Witness == Terminated /\ ~wekaJar /\ ~fastaReadable /\ exitStatus = {1}

\* C9: the effector FASTA file exists only if a path was given and both tools
\* exited 0, it exists in every run that was given a path and returned from
\* main(), and it holds exactly one record per Prediction Record labelled
\* Effector, with that record's identifier and probability and the sequence
\* the input stores under that identifier.
C9_EffectorFasta ==
    /\ effectorFile.exists => (effector_output # None /\ BothToolsSucceeded)
    /\ (Terminated /\ exitStatus = {0} /\ workspace.created /\ effector_output # None)
          => effectorFile.exists
    /\ ~effectorFile.exists => effectorFile.lines = << >>
    /\ effectorFile.exists =>
          LET recs == effectorFile.lines
              effs == {r \in 1..Len(predictions) : predictions[r][2] = "Effector"}
          IN  /\ Len(recs) = Cardinality(effs)
              /\ \A r \in effs : \E k \in 1..Len(recs) :
                    /\ recs[k].id = predictions[r][1]
                    /\ recs[k].prob = predictions[r][3]
                    /\ recs[k].sequence = SEQUENCES[IndexOf(recs[k].id)]

\* an export with an effector record and a non-effector left out
C9_Witness ==
    /\ effectorFile.exists
    /\ Len(effectorFile.lines) >= 1
    /\ Len(effectorFile.lines) < Len(predictions)

\* C10: main() cannot step in exactly two kinds of state, waiting for pepstats
\* and waiting for the classifier, each for as long as the child runs; while a
\* child runs nothing of the later stages happens (so a child that never exits
\* keeps the run there for ever); and a run in which every child that was
\* started exits (the runs of FairSpec) ends with status 0 or 1.
C10_BlockingWaits ==
    /\ [](pepstatsProc.state = "running" =>
            /\ pc = "wait_pepstats"
            /\ wekaProc.state = "none"
            /\ NoReportWritten /\ ~effectorFile.exists
            /\ workspace.exists)
    /\ [](wekaProc.state = "running" =>
            /\ pc = "wait_weka"
            /\ NoReportWritten /\ ~effectorFile.exists
            /\ workspace.exists)
    /\ []((~Terminated /\ ~ENABLED MainStep) =>
            \/ pc = "wait_pepstats" /\ pepstatsProc.state = "running"
            \/ pc = "wait_weka" /\ wekaProc.state = "running")
    /\ [][(pepstatsProc.state = "running" /\ pepstatsProc'.state = "running") => pc' = pc]_vars
    /\ [][(wekaProc.state = "running" /\ wekaProc'.state = "running") => pc' = pc]_vars
    /\ <>(Terminated /\ exitStatus \in {{0}, {1}})

C10_Witness == pc = "wait_weka" /\ wekaProc.state = "running" /\ ~ENABLED MainStep
====
